---- MODULE Spec2Model ----
(***************************************************************************)
(* State-machine model of the ANI ETL pipeline:                            *)
(*   validation/validator.py   validate_data                               *)
(*   persistence/writer.py     write_data, insert_new_records,             *)
(*                             insert_regulations_component, bulk_insert   *)
(*   dags/ani_etl_dag.py       the extract -> validate -> write sequence   *)
(*                                                                         *)
(* Strings are sequences of one-character tokens, so that str.strip, the   *)
(* '|'-joined unique_key and re.match are computed, not assumed.  A cell   *)
(* of a DataFrame is a tagged value [k, v]: k is the Python kind of the    *)
(* value and v its text.                                                   *)
(***************************************************************************)
EXTENDS Integers, Sequences, FiniteSets, TLC

\* ------------------------------------------------------------------ cells

None == [k |-> "none", v |-> <<>>]
NaN == [k |-> "nan", v |-> <<>>]
NaT == [k |-> "nat", v |-> <<>>]
StrCell(s) == [k |-> "str", v |-> s]
IntCell(s) == [k |-> "int", v |-> s]
BoolCell(s) == [k |-> "bool", v |-> s]
\* a pandas Timestamp at midnight of the day d (a one-digit token)
TsCell(d) == [k |-> "ts", v |-> <<d>>]
\* the outcome of a failed pydantic type validation
Invalid == [k |-> "invalid", v |-> <<>>]

\* the calendar days of the model and their 'YYYY-MM-DD' text, shortened to
\* the marker D and the digit of the day
Days == {"1", "2"}
DateStr(d) == <<"D", d>>
IsDateStr(s) == \E d \in Days : s = DateStr(d)
DayOf(s) == CHOOSE d \in Days : s = DateStr(d)

Digits == {"0", "1", "2", "7"}
IsDigits(s) == Len(s) > 0 /\ \A i \in 1..Len(s) : s[i] \in Digits

\* pd.isna
isna(c) == c.k \in {"none", "nan", "nat"}

\* row.get(field)
Get(row, f) == IF f \in DOMAIN row THEN row[f] ELSE None

\* str(v) of a Python value
PyStr(c) ==
  CASE c.k = "str" -> c.v
    [] c.k = "int" -> c.v
    [] c.k = "ts" -> DateStr(c.v[1]) \o <<" ", "0">>
    [] c.k = "bool" -> IF c.v = <<"1">> THEN <<"T">> ELSE <<"F">>
    [] c.k = "nat" -> <<"N", "a", "T">>
    [] c.k = "nan" -> <<"n", "a", "n">>
    [] OTHER -> <<"N", "o", "n", "e">>

\* str.strip()
RECURSIVE lstrip(_)
lstrip(s) == IF s # <<>> /\ Head(s) = " " THEN lstrip(Tail(s)) ELSE s
RECURSIVE rstrip(_)
rstrip(s) ==
  IF s # <<>> /\ s[Len(s)] = " " THEN rstrip(SubSeq(s, 1, Len(s) - 1)) ELSE s
strip(s) == rstrip(lstrip(s))

\* ------------------------------------------------- validator.py: the rules

\* re.match(pattern, text) for the patterns of the model, each a literal
\* prefix: the match is anchored at the start of the text only
re_match(pattern, text) ==
  Len(text) >= Len(pattern) /\ SubSeq(text, 1, Len(pattern)) = pattern

\* pydantic's validation of one value against type_map[field_type]; every
\* type is Optional, an unknown type name is Optional[Any]
Coerce(t, c) ==
  CASE t = "str" -> IF c.k \in {"none", "str"} THEN c ELSE Invalid
    [] t = "int" ->
         IF c.k \in {"none", "int"} THEN c
         ELSE IF c.k = "str" /\ IsDigits(c.v) THEN IntCell(c.v)
         ELSE Invalid
    [] t = "bool" ->
         IF c.k \in {"none", "bool"} THEN c
         ELSE IF c.k \in {"int", "str"} /\ c.v \in {<<"0">>, <<"1">>} THEN BoolCell(c.v)
         ELSE Invalid
    [] t = "date" -> IF c.k \in {"none", "ts"} THEN c ELSE Invalid
    [] OTHER -> c

\* one error of e.errors(): the type of the field fails, or the type holds
\* and the field's regex validator (which lets None through) raises
FieldError(rules, row, f) ==
  LET c == Coerce(rules.types[f], Get(row, f))
  IN  \/ c = Invalid
      \/ /\ f \in DOMAIN rules.regex
         /\ c # None
         /\ ~re_match(rules.regex[f], PyStr(c))

\* the loc[0] of every error of DynamicModel.model_validate(row)
Errors(rules, row) == {f \in DOMAIN rules.types : FieldError(rules, row, f)}

\* model_dump() of the validated model: the declared fields only, coerced
model_dump(rules, row) ==
  [f \in DOMAIN rules.types |-> Coerce(rules.types[f], Get(row, f))]

\* pd.to_datetime(errors='coerce') and pd.to_numeric(errors='coerce') of one
\* cell (validator.py lines 72-73, applied when the column is in df.columns)
to_datetime(c) ==
  CASE c.k = "ts" -> c
    [] c.k = "str" /\ IsDateStr(c.v) -> TsCell(DayOf(c.v))
    [] OTHER -> NaT
to_numeric(c) ==
  CASE c.k = "int" -> c
    [] c.k = "str" /\ IsDigits(c.v) -> IntCell(c.v)
    [] OTHER -> NaN
coerce_columns(row) ==
  [f \in DOMAIN row |->
     IF f = "created_at" THEN to_datetime(row[f])
     ELSE IF f = "rtype_id" THEN to_numeric(row[f])
     ELSE row[f]]

\* validated_row_data: row.copy() with every violated field that is not
\* required set to None
null_violated(rules, row) ==
  LET bad == Errors(rules, row) \ rules.required
  IN  [f \in DOMAIN row \cup bad |-> IF f \in bad THEN None ELSE row[f]]

\* a loop body without the repair: a record is discarded at its first
\* ValidationError
validate_record_no_repair(rules, row) ==
  IF {f \in rules.required : isna(Get(row, f))} # {}
  THEN [ok |-> FALSE, row |-> row, passes |-> 0, nulled |-> {}]
  ELSE IF Errors(rules, row) = {}
  THEN [ok |-> TRUE, row |-> model_dump(rules, row), passes |-> 1,
        nulled |-> {}]
  ELSE [ok |-> FALSE, row |-> row, passes |-> 1, nulled |-> {}]

\* the body of the loop of validate_data for one record of df.to_dict:
\* ok says whether a row is appended to validated_rows, row is that row,
\* passes counts the calls of model_validate, nulled the fields set to None
validate_record(rules, row) ==
  LET missing_required == {f \in rules.required : isna(Get(row, f))}
      repaired == null_violated(rules, row)
  IN  IF missing_required # {}
      THEN [ok |-> FALSE, row |-> row, passes |-> 0, nulled |-> {}]
      ELSE IF Errors(rules, row) = {}
      THEN [ok |-> TRUE, row |-> model_dump(rules, row), passes |-> 1,
            nulled |-> {}]
      ELSE IF Errors(rules, repaired) = {}
      THEN [ok |-> TRUE, row |-> model_dump(rules, repaired), passes |-> 2,
            nulled |-> Errors(rules, row) \ rules.required]
      ELSE [ok |-> FALSE, row |-> repaired, passes |-> 2,
            nulled |-> Errors(rules, row) \ rules.required]

\* validate_data: an empty df is returned as it is; otherwise the columns are
\* coerced and the accepted rows are kept in order
RECURSIVE validated_rows_of(_, _)
validated_rows_of(rules, records) ==
  IF records = <<>> THEN <<>>
  ELSE LET r == validate_record(rules, Head(records))
       IN  (IF r.ok THEN <<r.row>> ELSE <<>>)
             \o validated_rows_of(rules, Tail(records))
validate_data(df, rules) ==
  IF df = <<>> THEN df
  ELSE validated_rows_of(rules, [i \in 1..Len(df) |-> coerce_columns(df[i])])

\* ------------------------------------------------------- bounds and inputs

\* runs of the pipeline in one behaviour, store faults injected in one
\* behaviour, and records in one extracted batch
MaxRuns == 2
MaxFaults == 1
MaxBatch == 2

Runs == 1..MaxRuns
Entities == {"E1", "E2"}

\* int(os.environ.get("DEFAULT_COMPONENT_ID", 7))
DEFAULT_COMPONENT_ID == 7

\* a record as scrape_page builds it, restricted to the columns the writer
\* reads: the entity is a one-token string
Row(title, created, link, ent) ==
  [title |-> StrCell(title), created_at |-> StrCell(created),
   external_link |-> link, entity |-> StrCell(<<ent>>)]

\* the records the extraction can yield: a record, one with the same title
\* up to a trailing blank, another day and a link that fails the link
\* pattern, another entity's record, and a record whose title fails the
\* title pattern
RawRows ==
  { Row(<<"A">>, DateStr("1"), StrCell(<<"h", "x">>), "E1"),
    Row(<<"A", " ">>, DateStr("2"), StrCell(<<"x">>), "E1"),
    Row(<<"A">>, DateStr("1"), StrCell(<<"h", "x">>), "E2"),
    Row(<<"B">>, DateStr("1"), StrCell(<<"h", "x">>), "E1") }

RECURSIVE SeqsUpTo(_, _)
SeqsUpTo(S, n) ==
  IF n = 0 THEN {<<>>}
  ELSE LET shorter == SeqsUpTo(S, n - 1)
       IN  shorter \cup {Append(q, x) : q \in shorter, x \in S}
RawInputs == SeqsUpTo(RawRows, MaxBatch)

\* the rule set of the pipeline runs: every column typed, title required,
\* titles must start with A and links with h
PipelineRules ==
  [types |-> [title |-> "str", created_at |-> "date", external_link |-> "str",
              entity |-> "str", update_at |-> "str"],
   required |-> {"title"},
   regex |-> [external_link |-> <<"h">>, title |-> <<"A">>]]

\* --------------------------------------------- the store (create_tables.sql)

\* A row of the regulations table: the store-assigned id, the key columns,
\* created_at as a calendar day, and run, the run that inserted it (not a
\* column: it records who committed the row).
RegRow(id, title, day, link, ent, stamp, run) ==
  [id |-> id, title |-> title, created_at |-> day, external_link |-> link,
   entity |-> ent, update_at |-> stamp, run |-> run]

\* the identity the uniqueness constraint of the regulations table is on
StoreKey(row) == <<row.title, row.created_at, row.external_link, row.entity>>

\* the date column takes 'YYYY-MM-DD' text and refuses anything else
DateColumnAccepts(text) == IsDateStr(text)

\* a store without the uniqueness constraint: only the DATE column refuses
StoreError_no_unique(table, rows) ==
  IF \E i \in 1..Len(rows) : ~DateColumnAccepts(rows[i].created_at.v)
  THEN "invalid input syntax for type date"
  ELSE ""

\* the error the store raises for a batch of rows to insert, "" for none:
\* a value the date column refuses, or a row whose identity is in the table
\* or earlier in the batch
StoreError(table, rows) ==
  IF \E i \in 1..Len(rows) : ~DateColumnAccepts(rows[i].created_at.v)
  THEN "invalid input syntax for type date"
  ELSE IF \E i \in 1..Len(rows) :
            LET key == <<rows[i].title.v, DayOf(rows[i].created_at.v),
                         rows[i].external_link.v, rows[i].entity.v[1]>>
            IN  \/ \E old \in table : StoreKey(old) = key
                \/ \E j \in 1..(i - 1) :
                     <<rows[j].title.v, DayOf(rows[j].created_at.v),
                       rows[j].external_link.v, rows[j].entity.v[1]>> = key
  THEN "duplicate key value violates unique constraint"
  ELSE ""

\* the rows a committed batch adds: ids are assigned in batch order from the
\* sequence of the table
StoredRows(rows, firstId, run) ==
  { RegRow(firstId + i - 1, rows[i].title.v, DayOf(rows[i].created_at.v),
           rows[i].external_link.v, rows[i].entity.v[1],
           Get(rows[i], "update_at").v, run) : i \in 1..Len(rows) }

\* ------------------------------------------------ writer.py: the key columns

\* Series.astype(str) of the created_at column: a midnight Timestamp prints
\* as its date, a missing one as NaT
astype_str_date(c) ==
  CASE c.k = "ts" -> DateStr(c.v[1])
    [] isna(c) -> <<"N", "a", "T">>
    [] OTHER -> PyStr(c)
\* fillna('').astype(str)
fillna_str(c) == IF isna(c) THEN <<>> ELSE PyStr(c)

\* lines 131-133: the key columns of entity_df as text
normalize_row(row) ==
  [row EXCEPT !["created_at"] = StrCell(astype_str_date(row["created_at"])),
              !["external_link"] = StrCell(fillna_str(row["external_link"])),
              !["title"] = StrCell(strip(PyStr(row["title"])))]

\* lines 141-143: title + '|' + created_at + '|' + external_link
unique_key(title, created, link) ==
  title \o <<"|">> \o created \o <<"|">> \o link

\* lines 116-120, 128-130, 143-144: the keys of the rows the SELECT returned
\* (external_link is COALESCEd to ''; a date prints as 'YYYY-MM-DD')
existing_keys(existing_records) ==
  { unique_key(strip(old.title), DateStr(old.created_at), old.external_link)
      : old \in existing_records }

\* drop_duplicates(keep='last'): the last record of each triple stays
RECURSIVE drop_duplicates_keep_last(_)
drop_duplicates_keep_last(rows) ==
  IF rows = <<>> THEN <<>>
  ELSE LET first == rows[1]
           rest == SubSeq(rows, 2, Len(rows))
           subset(x) == <<x.title, x.created_at, x.external_link>>
       IN  IF \E i \in 1..Len(rest) : subset(rest[i]) = subset(first)
           THEN drop_duplicates_keep_last(rest)
           ELSE <<first>> \o drop_duplicates_keep_last(rest)

\* line 151: drop_duplicates(subset=[title, created_at, external_link],
\* keep='first')
RECURSIVE drop_duplicates(_)
drop_duplicates(rows) ==
  IF rows = <<>> THEN <<>>
  ELSE LET last == rows[Len(rows)]
           init == SubSeq(rows, 1, Len(rows) - 1)
           subset(x) == <<x.title, x.created_at, x.external_link>>
       IN  IF \E i \in 1..Len(init) : subset(init[i]) = subset(last)
           THEN drop_duplicates(init)
           ELSE Append(drop_duplicates(init), last)

\* a filter that does not look at the persisted rows
not_in_store_unfiltered(entity_df, existing_records) == entity_df

\* lines 136-147: the records that are not duplicates of persisted rows
not_in_store(entity_df, existing_records) ==
  IF existing_records = {} THEN entity_df
  ELSE SelectSeq(entity_df,
         LAMBDA x : unique_key(x.title.v, x.created_at.v, x.external_link.v)
                      \notin existing_keys(existing_records))

\* lines 116-162 of insert_new_records, after the SELECT returned
\* existing_records: what the run does next and, for an insert, df_to_insert
KeyColumns == {"entity", "created_at", "external_link", "title"}
plan_insert(df, entity, existing_records) ==
  IF "entity" \notin DOMAIN df[1]
  THEN [kind |-> "KeyError", rows |-> <<>>]
  ELSE LET entity_df == SelectSeq(df, LAMBDA x : x["entity"] = StrCell(<<entity>>))
           normalized == [i \in 1..Len(entity_df) |-> normalize_row(entity_df[i])]
           new_records == drop_duplicates(not_in_store(normalized, existing_records))
       IN  IF entity_df = <<>> THEN [kind |-> "no_records", rows |-> <<>>]
           ELSE IF ~(KeyColumns \subseteq DOMAIN df[1])
           THEN [kind |-> "KeyError", rows |-> <<>>]
           ELSE IF new_records = <<>> THEN [kind |-> "no_new", rows |-> <<>>]
           ELSE [kind |-> "insert", rows |-> new_records]

\* a check for the wording of another store
is_duplicate_error_other_wording(message) ==
  message = "UNIQUE constraint failed"

\* line 171: the errors of the primary insert that count as duplicates
is_duplicate_error(message) ==
  message = "duplicate key value violates unique constraint"

\* ORDER BY id ASC LIMIT n: the n lowest ids
RECURSIVE lowest_ids(_, _)
lowest_ids(ids, n) ==
  IF n = 0 \/ ids = {} THEN <<>>
  ELSE LET m == CHOOSE x \in ids : \A y \in ids : x <= y
       IN  <<m>> \o lowest_ids(ids \ {m}, n - 1)

\* lines 178-180: SELECT id ... WHERE entity = %s ORDER BY id DESC LIMIT n
RECURSIVE top_ids(_, _)
top_ids(ids, n) ==
  IF n = 0 \/ ids = {} THEN <<>>
  ELSE LET m == CHOOSE x \in ids : \A y \in ids : y <= x
       IN  <<m>> \o top_ids(ids \ {m}, n - 1)
\* the lookup without its WHERE entity = %s
select_new_ids_any_entity(table, entity, n) ==
  top_ids({row.id : row \in table}, n)

select_new_ids(table, entity, n) ==
  top_ids({row.id : row \in {x \in table : x.entity = entity}}, n)

\* ------------------------------------------------------------------ state

VARIABLES
  regs,          \* the regulations table
  comps,         \* the regulations_component table
  nextId,        \* the next id of the regulations table's sequence
  faults,        \* store faults injected so far
  pc,            \* pc[r]: the stage the run r is at
  entity,        \* entity[r]: the entity the run writes for
  input,         \* input[r]: the raw input the run extracted
  df,            \* df[r]: the DataFrame handed from stage to stage
  df_to_insert,  \* df_to_insert[r] of insert_new_records
  total_rows_processed,
  new_ids,       \* new_ids[r]: the ids the lookup returned
  intervened,    \* intervened[r]: another run committed rows of the same
                 \* entity between r's insert and r's lookup
  result,        \* result[r]: how the run ended
  vpc,           \* validate_data: where the call is
  arg_df,        \* validate_data: the df it is called with
  rules,         \* validate_data: the rule set it is called with
  records,       \* validate_data: df.to_dict('records') after coercion
  i,             \* validate_data: the index of the loop
  validated_rows,
  discarded_row_count,
  log,           \* log[k]: what the loop did with records[k]
  final_df,      \* validate_data: the DataFrame returned
  spc,           \* extract_title_and_link: where the call is
  html_row,      \* extract_title_and_link: the <tr> it is called with
  norma_data,    \* extract_title_and_link: the record it fills
  retval         \* extract_title_and_link: what it returned

writerVars ==
  <<regs, comps, nextId, faults, pc, entity, input, df, df_to_insert,
    total_rows_processed, new_ids, intervened, result>>
validatorVars ==
  <<vpc, arg_df, rules, records, i, validated_rows, discarded_row_count, log,
    final_df>>
scraperVars == <<spc, html_row, norma_data, retval>>
vars == <<writerVars, validatorVars, scraperVars>>

\* how a run ended: status is "returned" (write_data returned), "raised" (a
\* task raised) or "skipped" (AirflowSkipException); records_inserted, message
\* and component_message are what insert_new_records returned; failed and
\* error name the call that raised, if one did, and the text of its error (the
\* run logs them)
Result(status, n, message, component_message, failed, error) ==
  [status |-> status, records_inserted |-> n, message |-> message,
   component_message |-> component_message, failed |-> failed,
   error |-> error]
NoResult == Result("none", 0, "", "", "", "")

WriterInit ==
  /\ regs = {}
  /\ comps = {}
  /\ nextId = 1
  /\ faults = 0
  /\ pc = [r \in Runs |-> "idle"]
  /\ entity = [r \in Runs |-> "E1"]
  /\ input = [r \in Runs |-> <<>>]
  /\ df = [r \in Runs |-> <<>>]
  /\ df_to_insert = [r \in Runs |-> <<>>]
  /\ total_rows_processed = [r \in Runs |-> 0]
  /\ new_ids = [r \in Runs |-> <<>>]
  /\ intervened = [r \in Runs |-> FALSE]
  /\ result = [r \in Runs |-> NoResult]

ValidatorIdle ==
  /\ vpc = "idle"
  /\ arg_df = <<>>
  /\ rules = PipelineRules
  /\ records = <<>>
  /\ i = 1
  /\ validated_rows = <<>>
  /\ discarded_row_count = 0
  /\ log = <<>>
  /\ final_df = <<>>

\* norma_data as scrape_page builds it (lines 154-159), the fields that
\* extract_title_and_link sets
EmptyNorma == [title |-> None, external_link |-> None, gtype |-> None]

ScraperIdle ==
  /\ spc = "idle"
  /\ html_row = [cell |-> FALSE, link |-> FALSE, text |-> <<>>, href |-> None]
  /\ norma_data = EmptyNorma
  /\ retval = "none"

Init == WriterInit /\ ValidatorIdle /\ ScraperIdle

\* ---------------------------------------------------- the runs of the DAG

Active(r) == pc[r] \notin {"idle", "done"}

\* the end of a run: its locals are gone, its result stays
Finish(r, res) ==
  /\ pc' = [pc EXCEPT ![r] = "done"]
  /\ df' = [df EXCEPT ![r] = <<>>]
  /\ df_to_insert' = [df_to_insert EXCEPT ![r] = <<>>]
  /\ total_rows_processed' = [total_rows_processed EXCEPT ![r] = 0]
  /\ new_ids' = [new_ids EXCEPT ![r] = <<>>]
  /\ result' = [result EXCEPT ![r] = res]

Goto(r, stage) == pc' = [pc EXCEPT ![r] = stage] /\ UNCHANGED result

\* a sequence of the DAG in which the write task follows the extraction
downstream_unvalidated(stage) ==
  CASE stage = "ensure_schema" -> "extract_data"
    [] stage = "extract_data" -> "write_data"
    [] stage = "validate_data" -> "write_data"

\* schema_task >> extracted_fp >> validated_fp >> write_summary: the task
\* that runs when the task stage succeeded
downstream(stage) ==
  CASE stage = "ensure_schema" -> "extract_data"
    [] stage = "extract_data" -> "validate_data"
    [] stage = "validate_data" -> "write_data"

Fault == faults < MaxFaults /\ faults' = faults + 1

\* the scheduler triggers the next run of the DAG; serial says whether runs
\* of the DAG are serialized (one at a time)
StartRun(r, serial) ==
  /\ pc[r] = "idle"
  /\ \A q \in Runs : q < r => pc[q] # "idle"
  /\ serial => \A q \in Runs : ~Active(q)
  /\ \E e \in Entities : entity' = [entity EXCEPT ![r] = e]
  /\ Goto(r, "ensure_schema")
  /\ UNCHANGED <<regs, comps, nextId, faults, input, df, df_to_insert,
                 total_rows_processed, new_ids, intervened,
                 validatorVars, scraperVars>>

\* task_ensure_schema: the DDL is CREATE TABLE IF NOT EXISTS; a failure of
\* the connection or of the script is raised
task_ensure_schema(r) ==
  /\ pc[r] = "ensure_schema"
  /\ \/ /\ Goto(r, downstream("ensure_schema"))
        /\ UNCHANGED <<faults, df, df_to_insert, total_rows_processed, new_ids>>
     \/ /\ Fault
        /\ Finish(r, Result("raised", 0, "", "", "ensure_schema", "connection lost"))
  /\ UNCHANGED <<regs, comps, nextId, entity, input, intervened,
                 validatorVars, scraperVars>>

\* datetime.now() when the run r builds its k-th record, as text
Digit(n) == <<"1", "2", "3", "4", "5", "6", "7", "8", "9">>[n]
Stamp(r, k) == <<Digit(r), Digit(k)>>

\* task_extract: the scraped records, each stamped with update_at; an empty
\* extraction skips the run
task_extract(r) ==
  /\ pc[r] = "extract_data"
  /\ \E raw \in RawInputs :
       /\ input' = [input EXCEPT ![r] = raw]
       /\ IF raw = <<>>
          THEN Finish(r, Result("skipped", 0, "No data extracted.", "", "", ""))
          ELSE /\ df' = [df EXCEPT ![r] =
                    [k \in 1..Len(raw) |->
                       [f \in DOMAIN raw[k] \cup {"update_at"} |->
                          IF f = "update_at" THEN StrCell(Stamp(r, k))
                          ELSE raw[k][f]]]]
               /\ Goto(r, downstream("extract_data"))
               /\ UNCHANGED <<df_to_insert, total_rows_processed, new_ids>>
  /\ UNCHANGED <<regs, comps, nextId, faults, entity, intervened,
                 validatorVars, scraperVars>>

\* task_validate: validate_data on the extracted file; nothing valid skips
\* the run
task_validate(r) ==
  /\ pc[r] = "validate_data"
  /\ LET validated_df == validate_data(df[r], PipelineRules)
     IN  IF validated_df = <<>>
         THEN Finish(r, Result("skipped", 0, "No valid data left after validation.", "",
                              "", ""))
         ELSE /\ df' = [df EXCEPT ![r] = validated_df]
              /\ Goto(r, downstream("validate_data"))
              /\ UNCHANGED <<df_to_insert, total_rows_processed, new_ids>>
  /\ UNCHANGED <<regs, comps, nextId, faults, entity, input, intervened,
                 validatorVars, scraperVars>>

\* write_data, lines 206-211: an empty df returns at once; a failed connect
\* raises
write_data(r) ==
  /\ pc[r] = "write_data"
  /\ \/ /\ IF df[r] = <<>>
           THEN Finish(r, Result("returned", 0, "No data to write.", "", "", ""))
           ELSE /\ Goto(r, "select_existing")
                /\ UNCHANGED <<df, df_to_insert, total_rows_processed, new_ids>>
        /\ UNCHANGED faults
     \/ /\ df[r] # <<>>
        /\ Fault
        /\ Finish(r, Result("raised", 0, "", "", "connect", "connection lost"))
  /\ UNCHANGED <<regs, comps, nextId, entity, input, intervened,
                 validatorVars, scraperVars>>

\* a SELECT without its WHERE entity = %s
execute_query_all(table, ent) == table

\* lines 116-117: SELECT title, created_at, entity, external_link FROM
\* regulations WHERE entity = %s
execute_query_existing(table, ent) == {row \in table : row.entity = ent}

\* insert_new_records, lines 116-162: the SELECT of the entity's rows and the
\* duplicate validation; any exception is caught by the outer except
select_existing(r) ==
  /\ pc[r] = "select_existing"
  /\ \/ /\ Fault
        /\ Finish(r, Result("returned", 0, "Error processing entity", "",
                            "select existing", "connection lost"))
     \/ /\ UNCHANGED faults
        /\ LET existing_records == execute_query_existing(regs, entity[r])
               plan == plan_insert(df[r], entity[r], existing_records)
           IN  CASE plan.kind = "insert" ->
                      /\ df_to_insert' = [df_to_insert EXCEPT ![r] = plan.rows]
                      /\ Goto(r, "bulk_insert")
                      /\ UNCHANGED <<df, total_rows_processed, new_ids>>
                 [] plan.kind = "no_records" ->
                      Finish(r, Result("returned", 0, "No records found for entity", "",
                                       "", ""))
                 [] plan.kind = "no_new" ->
                      Finish(r, Result("returned", 0, "No new records found for entity",
                                       "", "", ""))
                 [] OTHER ->
                      Finish(r, Result("returned", 0, "Error processing entity", "",
                                       "duplicate validation", "KeyError"))
  /\ UNCHANGED <<regs, comps, nextId, entity, input, intervened,
                 validatorVars, scraperVars>>

\* a batch insert that leaves the rows of a failed batch in the table
bulk_insert_no_rollback(table, new_rows, error) == table \cup new_rows

\* DatabaseManager.bulk_insert, lines 77-91: the table after the call; the
\* batch is committed whole, and rolled back whole when the store raises
bulk_insert(table, new_rows, error) ==
  IF error = "" THEN table \cup new_rows ELSE table

\* lines 165-175 and 196-200: how insert_new_records leaves when the primary
\* insert raised: a duplicate error returns zero, any other error is raised
\* again inside the outer try, whose except returns zero with the error
primary_insert_failed(error) ==
  IF is_duplicate_error(error)
  THEN [status |-> "returned", message |-> "duplicates and skipped"]
  ELSE [status |-> "returned", message |-> "Error processing entity"]

\* insert_new_records, lines 164-175: the primary insert
insert_regulations(r) ==
  /\ pc[r] = "bulk_insert"
  /\ \E error \in {StoreError(regs, df_to_insert[r]), "connection lost"} :
       /\ IF error = "connection lost" THEN Fault ELSE UNCHANGED faults
       /\ regs' = bulk_insert(regs, StoredRows(df_to_insert[r], nextId, r), error)
       /\ IF error = ""
          THEN /\ nextId' = nextId + Len(df_to_insert[r])
               /\ total_rows_processed' =
                    [total_rows_processed EXCEPT ![r] = Len(df_to_insert[r])]
               /\ intervened' =
                    [q \in Runs |->
                       IF q # r /\ pc[q] = "select_ids" /\ entity[q] = entity[r]
                       THEN TRUE ELSE intervened[q]]
               /\ Goto(r, "select_ids")
               /\ UNCHANGED <<df, df_to_insert, new_ids>>
          ELSE /\ Finish(r, Result(primary_insert_failed(error).status, 0,
                                   primary_insert_failed(error).message, "",
                                   "insert regulations", error))
               /\ UNCHANGED <<nextId, intervened>>
  /\ UNCHANGED <<comps, entity, input,
                 validatorVars, scraperVars>>

\* insert_new_records, lines 177-181: the lookup of the ids; an exception of
\* the query is caught by the outer except, after the rows were committed
select_ids(r) ==
  /\ pc[r] = "select_ids"
  /\ \/ /\ Fault
        /\ Finish(r, Result("returned", 0, "Error processing entity", "",
                            "select ids", "connection lost"))
     \/ /\ UNCHANGED faults
        /\ new_ids' = [new_ids EXCEPT ![r] =
             select_new_ids(regs, entity[r], total_rows_processed[r])]
        /\ Goto(r, "insert_components")
        /\ UNCHANGED <<df, df_to_insert, total_rows_processed>>
  /\ UNCHANGED <<regs, comps, nextId, entity, input, intervened,
                 validatorVars, scraperVars>>

\* a row for the first of the ids only
component_rows_first_only(ids, run) ==
  { [regulations_id |-> ids[k], components_id |-> DEFAULT_COMPONENT_ID,
     run |-> run] : k \in 1..(IF ids = <<>> THEN 0 ELSE 1) }

\* insert_regulations_component, lines 100-101: one row for each id
component_rows(ids, run) ==
  { [regulations_id |-> ids[k], components_id |-> DEFAULT_COMPONENT_ID,
     run |-> run] : k \in 1..Len(ids) }

\* insert_regulations_component, lines 99-109: the message it returns; an
\* exception of the insert is caught and told in the message
component_message(error) ==
  IF error = "" THEN "Successfully inserted"
  ELSE "Error inserting regulation components"

\* lines 183-195: the association insert and the result of the run; a
\* failure of the association insert is reported in the message only
insert_components(r) ==
  /\ pc[r] = "insert_components"
  /\ \E error \in {"", "connection lost"} :
       /\ IF error = "" THEN UNCHANGED faults ELSE Fault
       /\ comps' = bulk_insert(comps, component_rows(new_ids[r], r), error)
       /\ Finish(r, Result("returned", total_rows_processed[r], "New inserted",
                        component_message(error),
                        IF error = "" THEN "" ELSE "insert components", error))
  /\ UNCHANGED <<regs, nextId, entity, input, intervened,
                 validatorVars, scraperVars>>

Trigger(r) == StartRun(r, FALSE)
SerialTrigger(r) == StartRun(r, TRUE)

\* runs may overlap
Next ==
  \E r \in Runs :
    \/ Trigger(r)
    \/ task_ensure_schema(r)
    \/ task_extract(r)
    \/ task_validate(r)
    \/ write_data(r)
    \/ select_existing(r)
    \/ insert_regulations(r)
    \/ select_ids(r)
    \/ insert_components(r)
Spec == Init /\ [][Next]_vars

\* runs are serialized: a run starts when no other run is active
SerialNext ==
  \E r \in Runs :
    \/ SerialTrigger(r)
    \/ task_ensure_schema(r)
    \/ task_extract(r)
    \/ task_validate(r)
    \/ write_data(r)
    \/ select_existing(r)
    \/ insert_regulations(r)
    \/ select_ids(r)
    \/ insert_components(r)
SerialSpec == Init /\ [][SerialNext]_vars

\* ------------------------------------------- validate_data, record by record

\* the records validate_data is called with: a title that matches the title
\* pattern, fails it, is null or is not a string; a summary that matches the summary pattern, fails it or
\* is null; a date that parses or not; gtype, which some rule sets do not type
ValCell ==
  [title |-> {StrCell(<<"A">>), StrCell(<<"B">>), None, IntCell(<<"7">>)},
   summary |-> {StrCell(<<"s">>), StrCell(<<"x">>), None},
   created_at |-> {StrCell(DateStr("1")), StrCell(<<"?">>)},
   gtype |-> {StrCell(<<"l">>)}]
ValRows ==
  { [title |-> t, summary |-> s, created_at |-> c, gtype |-> g] :
      t \in ValCell.title, s \in ValCell.summary, c \in ValCell.created_at,
      g \in ValCell.gtype }
ValInputs == SeqsUpTo(ValRows, MaxBatch)

\* the rule sets validate_data is called with (the sections types, required
\* and regex of the YAML file)
RuleSets ==
  { [types |-> [title |-> "str", summary |-> "str", created_at |-> "date",
                gtype |-> "str"],
     required |-> {"title"},
     regex |-> [summary |-> <<"s">>]],
    [types |-> [title |-> "str", summary |-> "str", created_at |-> "date",
                gtype |-> "str"],
     required |-> {"title", "created_at"},
     regex |-> [summary |-> <<"s">>, title |-> <<"A">>]],
    [types |-> [summary |-> "str", created_at |-> "date"],
     required |-> {"title"},
     regex |-> [summary |-> <<"s">>]],
    [types |-> [title |-> "str", summary |-> "int", created_at |-> "timestamp",
                gtype |-> "str"],
     required |-> {},
     regex |-> [gtype |-> <<"l">>]] }

ValInit ==
  /\ WriterInit
  /\ ScraperIdle
  /\ vpc = "call"
  /\ arg_df \in ValInputs
  /\ rules \in RuleSets
  /\ records = <<>>
  /\ i = 1
  /\ validated_rows = <<>>
  /\ discarded_row_count = 0
  /\ log = <<>>
  /\ final_df = <<>>

\* lines 61-75: an empty df is returned as it is; otherwise created_at and
\* rtype_id are coerced and the loop starts
validate_begin ==
  /\ vpc = "call"
  /\ IF arg_df = <<>>
     THEN /\ final_df' = arg_df
          /\ vpc' = "returned"
          /\ UNCHANGED records
     ELSE /\ records' = [k \in 1..Len(arg_df) |-> coerce_columns(arg_df[k])]
          /\ vpc' = "loop"
          /\ UNCHANGED final_df
  /\ UNCHANGED <<arg_df, rules, i, validated_rows, discarded_row_count, log>>
  /\ UNCHANGED <<writerVars, scraperVars>>

\* lines 77-105: one iteration of the loop
validate_row ==
  /\ vpc = "loop"
  /\ i <= Len(records)
  /\ LET done == validate_record(rules, records[i])
     IN  /\ validated_rows' =
               IF done.ok THEN Append(validated_rows, done.row) ELSE validated_rows
         /\ discarded_row_count' =
               IF done.ok THEN discarded_row_count ELSE discarded_row_count + 1
         /\ log' = Append(log,
               [accepted |-> done.ok, passes |-> done.passes,
                out |-> IF done.ok THEN Len(validated_rows) + 1 ELSE 0])
  /\ i' = i + 1
  /\ UNCHANGED <<vpc, arg_df, rules, records, final_df>>
  /\ UNCHANGED <<writerVars, scraperVars>>

\* lines 107-111: the accepted rows are returned
validate_end ==
  /\ vpc = "loop"
  /\ i > Len(records)
  /\ final_df' = validated_rows
  /\ vpc' = "returned"
  /\ UNCHANGED <<arg_df, rules, records, i, validated_rows,
                 discarded_row_count, log>>
  /\ UNCHANGED <<writerVars, scraperVars>>

ValNext == validate_begin \/ validate_row \/ validate_end
ValSpec == ValInit /\ [][ValNext]_vars

\* -------------------------------------------- scraper.py: the normalizer

\* the quote characters of quotes_map and quotes_pattern, two of them (the apostrophe and the acute accent)
QuoteChars == {"'", "´"}

\* lines 38-42: every quote character is removed
remove_quotes(text) == SelectSeq(text, LAMBDA c : c \notin QuoteChars)

\* line 44: the text is split at blanks and joined with one blank, so runs
\* of blanks become one blank and the blanks at the ends go
RECURSIVE squeeze(_)
squeeze(text) ==
  IF Len(text) < 2 THEN text
  ELSE IF text[1] = " " /\ text[2] = " " THEN squeeze(Tail(text))
  ELSE <<text[1]>> \o squeeze(Tail(text))
join_split(text) == strip(squeeze(text))

\* clean_quotes: an empty text is returned as it is
clean_quotes(text) ==
  IF text = <<>> THEN text ELSE join_split(strip(remove_quotes(text)))

\* the title limit of line 80 and the longest excess over it the inputs hold
TitleLimit == 65
MaxExcess == 5

\* the site prefix of line 86, shortened
SitePrefix == <<"h", "t", "t", "p", "s", ":", "/", "/", "s">>
startswith_http(text) ==
  Len(text) >= 4 /\ SubSeq(text, 1, 4) = <<"h", "t", "t", "p">>

\* extract_title_and_link, lines 70-92: ret is what it returns and norma the
\* record as it leaves it
title_and_link(row, norma) ==
  LET cleaned_title == clean_quotes(strip(row.text))
      external_link ==
        IF isna(row.href) \/ row.href.v = <<>> \/ startswith_http(row.href.v)
        THEN row.href
        ELSE StrCell(SitePrefix \o row.href.v)
      has_link == ~isna(external_link) /\ external_link.v # <<>>
      filled == [norma EXCEPT !.title = StrCell(cleaned_title),
                              !.external_link = external_link,
                              !.gtype = IF has_link
                                        THEN StrCell(<<"l", "i", "n", "k">>)
                                        ELSE None]
  IN  IF ~row.cell \/ ~row.link THEN [ret |-> FALSE, norma |-> norma]
      ELSE IF Len(cleaned_title) > TitleLimit
      THEN [ret |-> FALSE, norma |-> norma]
      ELSE [ret |-> has_link, norma |-> filled]

\* the anchor texts of the rows: n letters, with or without quotes and
\* blanks before, inside and after
Letters(n) == [k \in 1..n |-> "a"]
Decor == {<<>>, <<"´">>, <<" ">>, <<"'", " ">>}
RawTexts ==
  { pre \o Letters(n) \o mid \o post :
      pre \in Decor, n \in 0..(TitleLimit + MaxExcess),
      mid \in {<<>>, <<" ", " ", "b">>}, post \in Decor }
Hrefs ==
  { None, StrCell(<<>>), StrCell(<<"/", "x">>),
    StrCell(<<"h", "t", "t", "p", ":", "x">>) }
HtmlRows ==
  { [cell |-> FALSE, link |-> FALSE, text |-> <<>>, href |-> None],
    [cell |-> TRUE, link |-> FALSE, text |-> <<>>, href |-> None] }
  \cup { [cell |-> TRUE, link |-> TRUE, text |-> t, href |-> h] :
           t \in RawTexts, h \in Hrefs }

ScrapeInit ==
  /\ WriterInit
  /\ ValidatorIdle
  /\ spc = "call"
  /\ html_row \in HtmlRows
  /\ norma_data = EmptyNorma
  /\ retval = "none"

extract_title_and_link ==
  /\ spc = "call"
  /\ norma_data' = title_and_link(html_row, norma_data).norma
  /\ retval' = IF title_and_link(html_row, norma_data).ret THEN "True" ELSE "False"
  /\ spc' = "returned"
  /\ UNCHANGED <<html_row, writerVars, validatorVars>>

ScrapeNext == extract_title_and_link
ScrapeSpec == ScrapeInit /\ [][ScrapeNext]_vars

\* the title as the claim speaks of it: the anchor text after the cleaning of
\* quotes and blanks
CleanedTitle == clean_quotes(strip(html_row.text))

\* C12 (as claimed): a record the normalizer accepts has a title that is not
\* empty and has at most 65 characters after the cleaning; a row whose
\* cleaned title has more than 65 characters is rejected, and one with
\* exactly 65 (and a link) is accepted.
C12_TitleInvariant ==
  spc = "returned" =>
    /\ retval = "True" =>
         /\ norma_data.title = StrCell(CleanedTitle)
         /\ Len(norma_data.title.v) >= 1
         /\ Len(norma_data.title.v) <= 65
    /\ Len(CleanedTitle) > 65 => retval = "False"
    /\ ( /\ Len(CleanedTitle) = 65
         /\ html_row.link
         /\ ~isna(html_row.href) /\ html_row.href.v # <<>> )
       => retval = "True"

\* ------------------------------------------------------------ persistence

Done(r) == pc[r] = "done"
\* the rows the run r committed
Own(r) == {row \in regs : row.run = r}
OwnComps(r) == {c \in comps : c.run = r}
IdsOf(rows) == {row.id : row \in rows}

\* the run r ended and no store fault kept it from committing its
\* regulation rows
NoStoreFault(r) ==
  /\ Done(r)
  /\ result[r].status \in {"returned", "skipped"}
  /\ \/ result[r].error # "connection lost"
     \/ result[r].failed \in {"select ids", "insert components"}

\* two extracted records with identical (title, created_at, external_link)
\* and entity; the title is compared as the writer keys it, stripped
SameRecord(x, y) ==
  /\ strip(x.title.v) = strip(y.title.v)
  /\ x.created_at = y.created_at
  /\ x.external_link = y.external_link
  /\ x.entity = y.entity

\* the persisted row is the extracted record x
IsRowOf(row, x) ==
  /\ row.title = strip(x.title.v)
  /\ DateStr(row.created_at) = x.created_at.v
  /\ row.external_link \in {x.external_link.v, <<>>}
  /\ <<row.entity>> = x.entity.v

\* the records of the run's input that validation accepts and that are of
\* the run's entity
OfEntity(r) ==
  {k \in 1..Len(input[r]) :
     /\ input[r][k].entity.v = <<entity[r]>>
     /\ validate_data(<<input[r][k]>>, PipelineRules) # <<>>}

\* the place in its run's input of the record the row was inserted from
PositionOf(row) ==
  CHOOSE k \in 1..Len(input[row.run]) : row.update_at = Stamp(row.run, k)

\* r2 is the run after r1 and repeats it: same raw input, same entity
Repeats(r1, r2) ==
  /\ r2 = r1 + 1
  /\ Done(r1) /\ Done(r2)
  /\ input[r1] = input[r2]
  /\ entity[r1] = entity[r2]

\* C1: when the pipeline is run twice in sequence on the same raw input for
\* the same entity and no store fault stops the first run, every record of
\* the input that is of the entity has exactly one persisted row, and the
\* second run inserts no regulation row and no association row, reports
\* records_inserted = 0 and meets no duplicate error of the store.
C1_Idempotence ==
  \A r1, r2 \in Runs :
    Repeats(r1, r2) /\ NoStoreFault(r1) =>
      /\ \A k \in OfEntity(r1) :
           Cardinality({row \in regs : IsRowOf(row, input[r1][k])}) = 1
      /\ Own(r2) = {}
      /\ OwnComps(r2) = {}
      /\ result[r2].records_inserted = 0
      /\ result[r2].error \in {"", "connection lost"}
C1_Witness ==
  \E r1, r2 \in Runs :
    /\ Repeats(r1, r2)
    /\ result[r1].message = "New inserted"
    /\ Cardinality(Own(r1)) = 2
    /\ result[r2].message = "No new records found for entity"
    /\ result[r2].status = "returned"

\* C2: with serialized runs, no two persisted rows have the same (title,
\* created_at, external_link) and entity; of records of one batch with the
\* same triple the first in batch order is the one inserted; and every
\* record of a run that no store fault stopped has its row, also when the
\* run found the store empty.
C2_DedupTriple ==
  /\ \A a, b \in regs : StoreKey(a) = StoreKey(b) => a = b
  /\ \A row \in regs : \A j \in 1..(PositionOf(row) - 1) :
       ~SameRecord(input[row.run][j], input[row.run][PositionOf(row)])
  /\ \A r \in Runs : NoStoreFault(r) =>
       \A k \in OfEntity(r) : \E row \in regs : IsRowOf(row, input[r][k])
C2_Witness ==
  /\ Done(1) /\ Done(2)
  /\ entity[1] = entity[2]
  /\ Len(input[1]) = 2 /\ SameRecord(input[1][1], input[1][2])
  /\ Len(input[2]) = 2 /\ SameRecord(input[2][2], input[1][1])
  /\ ~SameRecord(input[2][1], input[1][1])
  /\ Cardinality(Own(1)) = 1
  /\ Cardinality(Own(2)) = 1
  /\ Cardinality(regs) = 2

\* C3: a serialized run that inserted N >= 1 regulation rows and whose
\* association insert succeeded created exactly N association rows, one for
\* the id of each row it inserted, each with the default component id.
C3_AssociationPropagation ==
  \A r \in Runs :
    Done(r) /\ result[r].component_message = "Successfully inserted" =>
      /\ result[r].records_inserted >= 1
      /\ Cardinality(Own(r)) = result[r].records_inserted
      /\ Cardinality(OwnComps(r)) = result[r].records_inserted
      /\ {c.regulations_id : c \in OwnComps(r)} = IdsOf(Own(r))
      /\ \A c \in OwnComps(r) : c.components_id = DEFAULT_COMPONENT_ID
C3_Witness ==
  /\ Done(2)
  /\ Own(1) # {}
  /\ entity[1] = entity[2]
  /\ result[2].component_message = "Successfully inserted"
  /\ result[2].records_inserted = MaxBatch - 1
  /\ result[1].records_inserted = 1

\* C4: when the association insert fails after the regulation insert
\* succeeded, the regulation rows of the run stay committed, no association
\* row of the run is persisted, and the run returns the number of rows
\* inserted (> 0) with a message that tells the association error.
C4_PartialFailureIsolation ==
  \A r \in Runs :
    Done(r) /\ result[r].failed = "insert components" =>
      /\ result[r].status = "returned"
      /\ result[r].records_inserted > 0
      /\ Cardinality(Own(r)) = result[r].records_inserted
      /\ OwnComps(r) = {}
      /\ result[r].component_message = "Error inserting regulation components"
C4_Witness ==
  \E r \in Runs :
    /\ Done(r)
    /\ result[r].failed = "insert components"
    /\ Cardinality(Own(r)) = 2

\* C5: when the insert of the new regulation rows raises a uniqueness
\* violation, none of the batch's rows and no association row is persisted,
\* and the run returns zero inserted with the duplicates-skipped message.
C5_StoreContention ==
  \A r \in Runs :
    /\ Done(r)
    /\ result[r].failed = "insert regulations"
    /\ result[r].error = "duplicate key value violates unique constraint"
    => /\ result[r].status = "returned"
       /\ result[r].records_inserted = 0
       /\ result[r].message = "duplicates and skipped"
       /\ Own(r) = {}
       /\ OwnComps(r) = {}
C5_Witness ==
  \E r \in Runs :
    /\ Done(r)
    /\ result[r].error = "duplicate key value violates unique constraint"
    /\ Len(input[r]) = 2
    /\ ~SameRecord(input[r][1], input[r][2])
    /\ OfEntity(r) = {1, 2}

\* C6 (as claimed): a failure of the primary insert that is not a duplicate
\* violation persists no row of the batch and ends the run with an error
\* raised to the caller of write_data.
C6_FatalPrimaryInsertFailure ==
  \A r \in Runs :
    /\ Done(r)
    /\ result[r].failed = "insert regulations"
    /\ result[r].error # "duplicate key value violates unique constraint"
    => /\ Own(r) = {}
       /\ result[r].status = "raised"

\* C7: when runs of one entity overlap, the store never holds two regulation
\* rows with the same (title, created_at, external_link) for the entity, and
\* a run whose insert the store refused as a duplicate lost to rows another
\* run committed for the entity.
C7_DuplicateRace ==
  /\ \A a, b \in regs :
       /\ a.title = b.title
       /\ a.created_at = b.created_at
       /\ a.external_link = b.external_link
       /\ a.entity = b.entity
       => a.id = b.id
  /\ \A r \in Runs :
       result[r].error = "duplicate key value violates unique constraint" =>
         \E row \in regs : row.run # r /\ row.entity = entity[r]
\* both runs read before either inserted, and both are about to insert the
\* same record
C7_Witness ==
  /\ pc[1] = "bulk_insert" /\ pc[2] = "bulk_insert"
  /\ regs = {}
  /\ \E k \in 1..Len(df_to_insert[1]) : \E j \in 1..Len(df_to_insert[2]) :
       /\ df_to_insert[1][k].title = df_to_insert[2][j].title
       /\ df_to_insert[1][k].created_at = df_to_insert[2][j].created_at
       /\ df_to_insert[1][k].external_link = df_to_insert[2][j].external_link
       /\ df_to_insert[1][k].entity = df_to_insert[2][j].entity

\* the run of the regulation row an association row points to
RunOfId(id) == (CHOOSE row \in regs : row.id = id).run

\* C8: the lookup of the most recent N ids returns exactly the ids of the
\* rows the run inserted unless another run committed rows of the same
\* entity between the run's insert and its lookup; an association row that
\* points to a row its run did not insert comes from such a lookup.
C8_IdentifierRecovery ==
  /\ \A r \in Runs :
       pc[r] = "insert_components" /\ ~intervened[r] =>
         /\ {new_ids[r][k] : k \in 1..Len(new_ids[r])} = IdsOf(Own(r))
         /\ Len(new_ids[r]) = Cardinality(Own(r))
  /\ \A c \in comps : RunOfId(c.regulations_id) # c.run => intervened[c.run]
\* the run linked a row of the other run, and a row of its own has no link
C8_Witness ==
  \E r \in Runs :
    /\ Done(r)
    /\ \E c \in OwnComps(r) : RunOfId(c.regulations_id) # r
    /\ \E row \in Own(r) : \A c \in comps : c.regulations_id # row.id

\* ------------------------------------------------------------ validation

\* the accepted row of the record records[k]
OutRow(k) == validated_rows[log[k].out]

\* the record records[k] has every required field, and its type and pattern
\* violations, if any, are on fields that are not required
Repairable(k) ==
  /\ \A f \in rules.required : ~isna(Get(records[k], f))
  /\ Errors(rules, records[k]) \cap rules.required = {}

\* C9 (as claimed): a record whose required fields are all present and whose
\* only violations are on fields that are not required is accepted, with
\* every violated field null and every other field as it was.
C9_PartialRepair ==
  \A k \in 1..Len(log) :
    Repairable(k) =>
      /\ log[k].accepted
      /\ \A f \in DOMAIN records[k] :
           /\ f \in DOMAIN OutRow(k)
           /\ OutRow(k)[f] =
                IF f \in Errors(rules, records[k]) THEN None ELSE records[k][f]

\* C10 (as claimed): a record with a required field missing or null is
\* discarded without a call of the validator, and no accepted row has a
\* required field that is null or missing.
C10_RequiredHardFail ==
  /\ \A k \in 1..Len(log) :
       (\E f \in rules.required : isna(Get(records[k], f)))
         => ~log[k].accepted /\ log[k].passes = 0
  /\ \A j \in 1..Len(validated_rows) : \A f \in rules.required :
       f \in DOMAIN validated_rows[j] /\ ~isna(validated_rows[j][f])

\* ------------------------------------------------------------- the stages

\* the place of a stage in the sequence of a run; the steps of the write
\* task follow in the order of insert_new_records
StageRank(stage) ==
  CASE stage = "idle" -> 0
    [] stage = "ensure_schema" -> 1
    [] stage = "extract_data" -> 2
    [] stage = "validate_data" -> 3
    [] stage = "write_data" -> 4
    [] stage = "select_existing" -> 5
    [] stage = "bulk_insert" -> 6
    [] stage = "select_ids" -> 7
    [] stage = "insert_components" -> 8
    [] stage = "done" -> 9

\* every record of df[r] that is of the run's entity is persisted already
NothingNew(r) ==
  \A k \in 1..Len(df[r]) :
    df[r][k].entity.v = <<entity[r]>> =>
      \E row \in regs :
        /\ row.title = strip(df[r][k].title.v)
        /\ row.created_at = df[r][k].created_at.v[1]
        /\ row.external_link =
             (IF isna(df[r][k].external_link) THEN <<>>
              ELSE df[r][k].external_link.v)
        /\ row.entity = entity[r]

\* the stage the run r is at yields an empty result in this step: nothing
\* extracted, nothing valid, or nothing new read from the store
EmptyStage(r) ==
  \/ pc[r] = "extract_data" /\ input'[r] = <<>>
  \/ /\ pc[r] = "validate_data"
     /\ \A k \in 1..Len(df[r]) :
          \/ isna(df[r][k].title)
          \/ ~re_match(<<"A">>, df[r][k].title.v)
  \/ pc[r] = "select_existing" /\ faults' = faults /\ NothingNew(r)

StageStep(r) ==
  pc'[r] # pc[r] =>
    /\ StageRank(pc'[r]) > StageRank(pc[r])
    /\ pc'[r] # "done" => StageRank(pc'[r]) = StageRank(pc[r]) + 1
    /\ EmptyStage(r) =>
         /\ pc'[r] = "done"
         /\ result'[r].status \in {"skipped", "returned"}
         /\ result'[r].records_inserted = 0
         /\ result'[r].failed = ""
         /\ regs' = regs /\ comps' = comps

\* C11: within one run the stages run in the order ensure_schema, extract,
\* validate, write, none is passed over and none starts before the one
\* before it ended; when a stage yields nothing (nothing extracted, nothing
\* valid, nothing new) the run ends at that step, skipped or with zero
\* inserted, without an error and without a change of the store.
C11_StageOrdering == [][\A r \in Runs : StageStep(r)]_vars
\* one run ended at the validation, the other at the extraction
C11_Witness ==
  /\ result[1].message = "No valid data left after validation."
  /\ result[1].status = "skipped"
  /\ input[1] # <<>>
  /\ result[2].message = "No data extracted."
  /\ result[2].status = "skipped"
  /\ regs = {}

\* ---------------------------------------------------- the repair attempt

\* the required fields of records[k] are all present
RequiredPresent(k) == \A f \in rules.required : ~isna(Get(records[k], f))

\* C13: a record whose required fields are present is validated once when
\* it has no violation and twice when it has one, the second time after the
\* nulling; it is accepted exactly when no violation is on a required field;
\* no record is validated more than twice; and every record the loop has
\* passed is either accepted or counted as discarded, so that the accepted
\* and the discarded add up to the input when validate_data returns.
C13_SingleRepair ==
  /\ \A k \in 1..Len(log) :
       /\ log[k].passes <= 2
       /\ RequiredPresent(k) /\ Errors(rules, records[k]) = {}
            => log[k].passes = 1 /\ log[k].accepted
       /\ RequiredPresent(k) /\ Errors(rules, records[k]) # {}
            => /\ log[k].passes = 2
               /\ log[k].accepted
                    <=> Errors(rules, records[k]) \cap rules.required = {}
       /\ Errors(rules, records[k]) \cap rules.required # {} => ~log[k].accepted
  /\ Len(validated_rows) + discarded_row_count = Len(log)
  /\ vpc = "returned" /\ arg_df # <<>> =>
       /\ Len(log) = Len(arg_df)
       /\ Len(final_df) + discarded_row_count = Len(arg_df)
\* one record was repaired and accepted, the other rejected after the repair
C13_Witness ==
  /\ vpc = "returned"
  /\ Len(log) = 2
  /\ log[1].passes = 2 /\ log[1].accepted
  /\ log[2].passes = 2 /\ ~log[2].accepted
  /\ Len(final_df) = 1 /\ discarded_row_count = 1

\* -------------------------------------------------- the association rows

\* the association rows that point to the regulation row
LinksOf(row) == {c \in comps : c.regulations_id = row.id}

\* every association row points to a regulation row that the run that
\* created the link inserted, and no regulation row has two of them
LinksAreOwn ==
  /\ \A c \in comps :
       \E row \in regs : row.id = c.regulations_id /\ row.run = c.run
  /\ \A row \in regs : Cardinality(LinksOf(row)) <= 1

\* C14 (as claimed): after serialized runs, also runs in which an insert
\* failed, every association row points to a regulation row its run
\* inserted, no regulation row has more than one association row, and every
\* regulation row a run inserted has exactly one.
C14_OneToOneAlways ==
  /\ LinksAreOwn
  /\ \A r \in Runs : Done(r) =>
       \A row \in Own(r) : Cardinality(LinksOf(row)) = 1

\* C14 (amended): after serialized runs every association row points to a
\* regulation row its run inserted and no regulation row has more than one;
\* the rows of a run that ended without a failure have exactly one each,
\* and the rows of a run whose id lookup or association insert failed stay
\* committed with none.
C14_OneToOneUnlessFailed ==
  /\ LinksAreOwn
  /\ \A r \in Runs : Done(r) =>
       \A row \in Own(r) :
         Cardinality(LinksOf(row)) =
           (IF result[r].failed \in {"select ids", "insert components"}
            THEN 0 ELSE 1)
\* the rows of the first run have no link, those of the second have one
C14_Witness ==
  /\ Done(1) /\ Done(2)
  /\ result[1].failed = "insert components"
  /\ Own(1) # {}
  /\ result[2].failed = ""
  /\ Cardinality(Own(2)) = 1
  /\ Cardinality(comps) = 1

\* ------------------------------------------------------ the reported count

\* C15 (as claimed): whenever write_data returns a result, records_inserted
\* is the number of regulation rows the run committed, also when the id
\* lookup or the association insert failed after the commit.
C15_ReportedCount ==
  \A r \in Runs :
    Done(r) /\ result[r].status = "returned" =>
      result[r].records_inserted = Cardinality(Own(r))

\* ------------------------------------------------------------- the entity

\* C16: with serialized runs, every regulation row a run inserted has the
\* entity the run wrote for; a run with no record of its entity writes
\* nothing; a record of the entity is inserted unless a row of that entity
\* holds its identity, whatever rows of other entities hold; and no step of
\* a run removes or changes a persisted regulation or association row.
C16_EntityFrame ==
  /\ [][regs \subseteq regs' /\ comps \subseteq comps']_vars
  /\ [](\A row \in regs : row.entity = entity[row.run])
  /\ [](\A r \in Runs :
          Done(r) /\ (\A k \in 1..Len(input[r]) :
                        input[r][k].entity.v # <<entity[r]>>)
            => Own(r) = {} /\ OwnComps(r) = {})
  /\ [](\A r \in Runs : NoStoreFault(r) =>
          \A k \in OfEntity(r) : \E row \in regs :
            IsRowOf(row, input[r][k]) /\ row.entity = entity[r])
\* two rows with one (title, created_at, external_link), one for each
\* entity, the second inserted by a run that also extracted a record of the
\* other entity
C16_Witness ==
  /\ Done(1) /\ Done(2)
  /\ entity[1] = "E1" /\ entity[2] = "E2"
  /\ Len(input[2]) = 2
  /\ input[2][1].entity.v = <<"E1">>
  /\ Cardinality(Own(2)) = 1
  /\ \E a \in Own(1) : \E b \in Own(2) :
       /\ a.title = b.title
       /\ a.created_at = b.created_at
       /\ a.external_link = b.external_link
       /\ a.entity # b.entity
====
